---- MODULE Spec2Model ----
(***************************************************************************)
(* A model of the puzzle-cube crate: Cube construction (cube.rs), the      *)
(* Cubit representation and its rotation (cubit.rs), and the Move model   *)
(* with its axis normalisation and rotation-matrix table (movement.rs).   *)
(*                                                                         *)
(* A 3-vector is a tuple <<x, y, z>>.  A 3x3 matrix is a tuple of its     *)
(* three rows, in the row-major order in which Matrix3::new takes its     *)
(* arguments.  A Cubit is the tuple of the four columns of its 3x4 inner  *)
(* matrix: <<position, x-axis, y-axis, z-axis>>.                           *)
(***************************************************************************)
EXTENDS Integers, Sequences, FiniteSets, TLC

VARIABLES
    phase,      \* "constructing" | "ready" | "failed": where the caller is
    arg,        \* the argument handed to Cube::with_number_sides
    idx,        \* the index the construction's filter_map iterator is at
    sides,      \* Cube.sides
    cubits,     \* Cube.cubits
    ret,        \* result of the last call: "Ok", "InvalidNumberSides", ...
    mv,         \* the Move handed to the last Cube::rotate call (or NoMove)
    prev,       \* Cube.cubits as they were before the last Cube::rotate call
    nMoves,     \* number of Cube::rotate calls made so far
    todo        \* indices the loop of a running Cube::rotate has yet to visit

vars == <<phase, arg, idx, sides, cubits, ret, mv, prev, nMoves, todo>>

----------------------------------------------------------------------------
(* Bounds of the model. *)

\* largest argument tried for Cube::with_number_sides
MaxSides == 5

\* largest cube on which moves are explored
MaxRotSides == 3

\* number of generator moves that scramble a cube before the move under study
MaxScramble == 1

\* smallest valid number of sides (the guard of with_number_sides)
MinSides == 2

----------------------------------------------------------------------------
(* movement.rs: the enums. *)

AxisInner == {"X", "NegX", "Y", "NegY", "Z", "NegZ"}

Axis == {"X", "Y", "Z"}

MoveType == {"Clockwise", "CounterClockwise", "Twice"}

Single(l) == <<"Single", l>>

Multiple(m) == <<"Multiple", m>>

WholeCube == <<"WholeCube">>

\* impl From<Layer> for LayerInner
LayerInto(l) ==
    IF l[1] = "Single" THEN Single(l[2]) ELSE Multiple(l[2])

\* impl From<Axis> for AxisInner
AxisInto(a) ==
    CASE a = "X" -> "X"
      [] a = "Y" -> "Y"
      [] a = "Z" -> "Z"

\* impl TryFrom<AxisInner> for Axis: <<"Ok", axis>> or <<"Err", "AxisConvert">>
AxisTryFrom(value) ==
    CASE value = "X" -> <<"Ok", "X">>
      [] value = "Y" -> <<"Ok", "Y">>
      [] value = "Z" -> <<"Ok", "Z">>
      [] value \in {"NegX", "NegY", "NegZ"} -> <<"Err", "AxisConvert">>

\* MoveType::opposite
Opposite(t) ==
    CASE t = "Clockwise" -> "CounterClockwise"
      [] t = "CounterClockwise" -> "Clockwise"
      [] t = "Twice" -> "Twice"

----------------------------------------------------------------------------
(* movement.rs: the Move constructors. *)

MkMove(t, a, r) == [move_type |-> t, axis |-> a, affected_range |-> r]

rotate_top(layer, t) == MkMove(t, "Z", LayerInto(layer))

rotate_bottom(layer, t) == MkMove(t, "NegZ", LayerInto(layer))

rotate_left(layer, t) == MkMove(t, "NegY", LayerInto(layer))

rotate_right(layer, t) == MkMove(t, "Y", LayerInto(layer))

rotate_front(layer, t) == MkMove(t, "X", LayerInto(layer))

rotate_back(layer, t) == MkMove(t, "NegX", LayerInto(layer))

rotate_cube(axis, t) == MkMove(t, AxisInto(axis), WholeCube)

Faces == {"top", "bottom", "left", "right", "front", "back"}

\* the face constructors, by name
FaceMove(face, layer, t) ==
    CASE face = "top" -> rotate_top(layer, t)
      [] face = "bottom" -> rotate_bottom(layer, t)
      [] face = "left" -> rotate_left(layer, t)
      [] face = "right" -> rotate_right(layer, t)
      [] face = "front" -> rotate_front(layer, t)
      [] face = "back" -> rotate_back(layer, t)

----------------------------------------------------------------------------
(* movement.rs: the rotation-matrix table and its lookup. *)

\* a table in which the Y clockwise entry has lost its 1
ROT_MAT_Y_CW_Typo == << <<0, 0, -1>>, <<0, 1, 0>>, <<0, 0, 0>> >>

\* a table in which the X half-turn entry has lost a sign
ROT_MAT_X_2_Typo == << <<1, 0, 0>>, <<0, -1, 0>>, <<0, 0, 1>> >>

\* a table in which the Y counter-clockwise entry repeats the clockwise one
ROT_MAT_Y_CCW_AsCw == << <<0, 0, -1>>, <<0, 1, 0>>, <<1, 0, 0>> >>

\* a table in which the Z half-turn entry has lost a sign
ROT_MAT_Z_2_Typo == << <<-1, 0, 0>>, <<0, 0, 0>>, <<0, 0, 1>> >>

\* a table in which the X clockwise entry repeats a row
ROT_MAT_X_CW_Typo == << <<1, 0, 0>>, <<0, 0, 1>>, <<0, 0, -1>> >>

ROT_MAT_Z_CW == << <<0, 1, 0>>, <<-1, 0, 0>>, <<0, 0, 1>> >>

ROT_MAT_Z_CCW == << <<0, -1, 0>>, <<1, 0, 0>>, <<0, 0, 1>> >>

ROT_MAT_Z_2 == << <<-1, 0, 0>>, <<0, -1, 0>>, <<0, 0, 1>> >>

ROT_MAT_Y_CW == << <<0, 0, -1>>, <<0, 1, 0>>, <<1, 0, 0>> >>

ROT_MAT_Y_CCW == << <<0, 0, 1>>, <<0, 1, 0>>, <<-1, 0, 0>> >>

ROT_MAT_Y_2 == << <<-1, 0, 0>>, <<0, 1, 0>>, <<0, 0, -1>> >>

ROT_MAT_X_CW == << <<1, 0, 0>>, <<0, 0, 1>>, <<0, -1, 0>> >>

ROT_MAT_X_CCW == << <<1, 0, 0>>, <<0, 0, -1>>, <<0, 1, 0>> >>

ROT_MAT_X_2 == << <<1, 0, 0>>, <<0, -1, 0>>, <<0, 0, -1>> >>

\* the value a failed expect() stands for: the call panics
Panic == <<"panic">>

\* a normalisation whose first arms leave out the bottom face, so that NegZ
\* reaches the narrowing conversion
NormalizeAxisMoveType_MissingNegZ(m) ==
    CASE m.axis = "NegX" -> <<"X", Opposite(m.move_type)>>
      [] m.axis = "NegY" -> <<"Y", Opposite(m.move_type)>>
      [] m.axis \in {"X", "Y", "Z", "NegZ"} ->
            LET r == AxisTryFrom(m.axis)
            IN  IF r[1] = "Ok" THEN <<r[2], m.move_type>> ELSE Panic

\* a normalisation that forgets to invert the turn of the left face
NormalizeAxisMoveType_NoFlip(m) ==
    CASE m.axis = "NegX" -> <<"X", Opposite(m.move_type)>>
      [] m.axis = "NegY" -> <<"Y", m.move_type>>
      [] m.axis = "NegZ" -> <<"Z", Opposite(m.move_type)>>
      [] m.axis \in {"X", "Y", "Z"} -> <<m.axis, m.move_type>>

\* Move::normalize_axis_move_type: <<Axis, MoveType>>, or Panic when the
\* narrowing conversion of the X | Y | Z arm fails
NormalizeAxisMoveType(m) ==
    CASE m.axis = "NegX" -> <<"X", Opposite(m.move_type)>>
      [] m.axis = "NegY" -> <<"Y", Opposite(m.move_type)>>
      [] m.axis = "NegZ" -> <<"Z", Opposite(m.move_type)>>
      [] m.axis \in {"X", "Y", "Z"} ->
            LET r == AxisTryFrom(m.axis)
            IN  IF r[1] = "Ok" THEN <<r[2], m.move_type>> ELSE Panic

\* a lookup whose Z clockwise arm names the X clockwise matrix
MatrixOf_ZCwAsXCw(a, t) ==
    CASE a = "X" /\ t = "Clockwise" -> ROT_MAT_X_CW
      [] a = "X" /\ t = "CounterClockwise" -> ROT_MAT_X_CCW
      [] a = "X" /\ t = "Twice" -> ROT_MAT_X_2
      [] a = "Y" /\ t = "Clockwise" -> ROT_MAT_Y_CW
      [] a = "Y" /\ t = "CounterClockwise" -> ROT_MAT_Y_CCW
      [] a = "Y" /\ t = "Twice" -> ROT_MAT_Y_2
      [] a = "Z" /\ t = "Clockwise" -> ROT_MAT_X_CW
      [] a = "Z" /\ t = "CounterClockwise" -> ROT_MAT_Z_CCW
      [] a = "Z" /\ t = "Twice" -> ROT_MAT_Z_2

\* a lookup whose Z half-turn arm names the quarter-turn matrix
MatrixOf_ZTwiceAsCw(a, t) ==
    CASE a = "X" /\ t = "Clockwise" -> ROT_MAT_X_CW
      [] a = "X" /\ t = "CounterClockwise" -> ROT_MAT_X_CCW
      [] a = "X" /\ t = "Twice" -> ROT_MAT_X_2
      [] a = "Y" /\ t = "Clockwise" -> ROT_MAT_Y_CW
      [] a = "Y" /\ t = "CounterClockwise" -> ROT_MAT_Y_CCW
      [] a = "Y" /\ t = "Twice" -> ROT_MAT_Y_2
      [] a = "Z" /\ t = "Clockwise" -> ROT_MAT_Z_CW
      [] a = "Z" /\ t = "CounterClockwise" -> ROT_MAT_Z_CCW
      [] a = "Z" /\ t = "Twice" -> ROT_MAT_Z_CW

\* the match of Move::rotation_matrix on a normalised pair
MatrixOf(a, t) ==
    CASE a = "X" /\ t = "Clockwise" -> ROT_MAT_X_CW
      [] a = "X" /\ t = "CounterClockwise" -> ROT_MAT_X_CCW
      [] a = "X" /\ t = "Twice" -> ROT_MAT_X_2
      [] a = "Y" /\ t = "Clockwise" -> ROT_MAT_Y_CW
      [] a = "Y" /\ t = "CounterClockwise" -> ROT_MAT_Y_CCW
      [] a = "Y" /\ t = "Twice" -> ROT_MAT_Y_2
      [] a = "Z" /\ t = "Clockwise" -> ROT_MAT_Z_CW
      [] a = "Z" /\ t = "CounterClockwise" -> ROT_MAT_Z_CCW
      [] a = "Z" /\ t = "Twice" -> ROT_MAT_Z_2

\* Move::rotation_matrix
RotationMatrix(m) ==
    LET n == NormalizeAxisMoveType(m)
    IN  IF n = Panic THEN Panic ELSE MatrixOf(n[1], n[2])

----------------------------------------------------------------------------
(* cubit.rs *)

\* one entry of a matrix-vector product
Dot(r, v) == r[1] * v[1] + r[2] * v[2] + r[3] * v[3]

\* rot * column
MatVec(rot, v) == <<Dot(rot[1], v), Dot(rot[2], v), Dot(rot[3], v)>>

\* Cubit::new
CubitNew(pos, xaxis, yaxis, zaxis) == <<pos, xaxis, yaxis, zaxis>>

\* Cubit::std_from_position
StdFromPosition(pos) == CubitNew(pos, <<1, 0, 0>>, <<0, 1, 0>>, <<0, 0, 1>>)

\* Cubit::get_position
GetPosition(c) == c[1]

\* Cubit::rotate: inner = rot * inner, column by column
CubitRotate(c, rot) == [k \in 1..4 |-> MatVec(rot, c[k])]

----------------------------------------------------------------------------
(* cube.rs: coordinate helpers. *)

Pow(b, e) == IF e = 0 THEN 1 ELSE IF e = 1 THEN b ELSE IF e = 2 THEN b * b ELSE b * b * b

\* Cube::even_sides
EvenSides(s) == s % 2 = 0

\* Cube::offset
Offset(s) == IF EvenSides(s) THEN s - 1 ELSE s \div 2

\* Cube::step
Step(s) == IF EvenSides(s) THEN 2 ELSE 1

\* an index_to_coords that takes x and y from each other's digit
IndexToCoords_SwapXY(s, i) ==
    LET offset == Offset(s)
        step == Step(s)
        x == (i % s) * step - offset
        y == ((i \div s) % s) * step - offset
        z == ((i \div Pow(s, 2)) % s) * step - offset
    IN  <<x, y, z>>

\* Cube::index_to_coords
IndexToCoords(s, i) ==
    LET offset == Offset(s)
        step == Step(s)
        x == ((i \div s) % s) * step - offset
        y == (i % s) * step - offset
        z == ((i \div Pow(s, 2)) % s) * step - offset
    IN  <<x, y, z>>

\* a RangeInclusive is <<start, end>>; RangeInclusive::contains
Contains(r, v) == r[1] <= v /\ v <= r[2]

\* Cube::full_range
FullRange(s) == <<Offset(s) * (-1), Offset(s)>>

\* a neg_layer that forgets the step
NegLayer_NoStep(s, l) ==
    LET offset == Offset(s) * (-1)
    IN  <<offset + l, offset + l>>

\* Cube::neg_layer
NegLayer(s, l) ==
    LET layer == l * Step(s)
        offset == Offset(s) * (-1)
    IN  <<offset + layer, offset + layer>>

\* a pos_layer that measures from the negative face
PosLayer_FromNeg(s, l) ==
    LET layer == l * Step(s)
        offset == Offset(s) * (-1)
    IN  <<offset + layer, offset + layer>>

\* Cube::pos_layer
PosLayer(s, l) ==
    LET layer == l * Step(s)
        offset == Offset(s)
    IN  <<offset - layer, offset - layer>>

\* a neg_range that forgets the step
NegRange_NoStep(s, l) ==
    LET layers == l - 1
        offset == Offset(s) * (-1)
    IN  <<offset, offset + layers>>

\* a neg_range that computes layers - 1 as a saturating unsigned subtraction
NegRange_Saturating(s, l) ==
    LET layers == (IF l = 0 THEN 0 ELSE l - 1) * Step(s)
        offset == Offset(s) * (-1)
    IN  <<offset, offset + layers>>

\* Cube::neg_range
NegRange(s, l) ==
    LET layers == (l - 1) * Step(s)
        offset == Offset(s) * (-1)
    IN  <<offset, offset + layers>>

\* a pos_range that spans one layer too many
PosRange_OffByOne(s, l) ==
    LET layers == l * Step(s)
        offset == Offset(s)
    IN  <<offset - layers, offset>>

\* Cube::pos_range
PosRange(s, l) ==
    LET layers == (l - 1) * Step(s)
        offset == Offset(s)
    IN  <<offset - layers, offset>>

----------------------------------------------------------------------------
(* cube.rs: construction. *)

\* a shell test that forgets the z coordinate
OnShell_NoZ(s, i) ==
    \/ ((i \div s) % s) % (s - 1) = 0
    \/ (i % s) % (s - 1) = 0

\* the predicate of the filter_map closure in with_number_sides
OnShell(s, i) ==
    \/ ((i \div s) % s) % (s - 1) = 0
    \/ (i % s) % (s - 1) = 0
    \/ (i \div Pow(s, 2)) % (s - 1) = 0

\* the fold of with_number_sides over the indices i..full-1, pushing onto v
RECURSIVE FoldFrom(_, _, _)
FoldFrom(s, i, v) ==
    IF i >= Pow(s, 3) THEN v
    ELSE FoldFrom(s, i + 1,
                  IF OnShell(s, i)
                  THEN Append(v, StdFromPosition(IndexToCoords(s, i)))
                  ELSE v)

\* Cube::with_number_sides for a valid argument: the cubit vector
WithNumberSides(s) == FoldFrom(s, 0, <<>>)

----------------------------------------------------------------------------
(* cube.rs: Cube::rotate. *)

\* a validation that lets Single(sides) through
InvalidLayer_OffByOne(s, m) ==
    \/ m.affected_range[1] = "Single" /\ m.affected_range[2] > s
    \/ m.affected_range[1] = "Multiple" /\ m.affected_range[2] > s

\* the validation match of Cube::rotate
InvalidLayer(s, m) ==
    \/ m.affected_range[1] = "Single" /\ m.affected_range[2] >= s
    \/ m.affected_range[1] = "Multiple" /\ m.affected_range[2] > s

\* the range-resolving match of Cube::rotate: <<x_range, y_range, z_range>>
Ranges(s, m) ==
    LET r == m.affected_range
        full == FullRange(s)
    IN  CASE r[1] = "Single" ->
               (CASE m.axis = "X" -> <<PosLayer(s, r[2]), full, full>>
                  [] m.axis = "NegX" -> <<NegLayer(s, r[2]), full, full>>
                  [] m.axis = "Y" -> <<full, PosLayer(s, r[2]), full>>
                  [] m.axis = "NegY" -> <<full, NegLayer(s, r[2]), full>>
                  [] m.axis = "Z" -> <<full, full, PosLayer(s, r[2])>>
                  [] m.axis = "NegZ" -> <<full, full, NegLayer(s, r[2])>>)
          [] r[1] = "Multiple" ->
               (CASE m.axis = "X" -> <<PosRange(s, r[2]), full, full>>
                  [] m.axis = "NegX" -> <<NegRange(s, r[2]), full, full>>
                  [] m.axis = "Y" -> <<full, PosRange(s, r[2]), full>>
                  [] m.axis = "NegY" -> <<full, NegRange(s, r[2]), full>>
                  [] m.axis = "Z" -> <<full, full, PosRange(s, r[2])>>
                  [] m.axis = "NegZ" -> <<full, full, NegRange(s, r[2])>>)
          [] r[1] = "WholeCube" -> <<full, full, full>>

\* a loop condition that forgets the z range
InRanges_NoZ(rs, pos) ==
    /\ Contains(rs[1], pos[1])
    /\ Contains(rs[2], pos[2])

\* the condition of the loop body of Cube::rotate
InRanges(rs, pos) ==
    /\ Contains(rs[1], pos[1])
    /\ Contains(rs[2], pos[2])
    /\ Contains(rs[3], pos[3])

\* a loop body that tests and rotates a cubit again after rotating it
LoopBody_Again(c, rs, rot) ==
    IF InRanges(rs, GetPosition(c))
    THEN LET d == CubitRotate(c, rot)
         IN  IF InRanges(rs, GetPosition(d)) THEN CubitRotate(d, rot) ELSE d
    ELSE c

\* the body of the for loop of Cube::rotate, for one cubit
LoopBody(c, rs, rot) ==
    IF InRanges(rs, GetPosition(c)) THEN CubitRotate(c, rot) ELSE c

\* the for loop of Cube::rotate
RotateLoop(cs, rs, rot) ==
    [k \in 1..Len(cs) |->
        IF InRanges(rs, GetPosition(cs[k])) THEN CubitRotate(cs[k], rot) ELSE cs[k]]

\* a rotate that validates after the loop instead of before it
CubeRotate_LateCheck(s, cs, m) ==
    LET rot == RotationMatrix(m)
        out == IF rot = Panic THEN cs ELSE RotateLoop(cs, Ranges(s, m), rot)
    IN  IF InvalidLayer(s, m)
        THEN [ret |-> "InvalidMoveLayer", cubits |-> out]
        ELSE [ret |-> IF rot = Panic THEN "panic" ELSE "Ok", cubits |-> out]

\* Cube::rotate: the result and the cubits it leaves
CubeRotate(s, cs, m) ==
    IF InvalidLayer(s, m)
    THEN [ret |-> "InvalidMoveLayer", cubits |-> cs]
    ELSE LET rot == RotationMatrix(m)
         IN  IF rot = Panic
             THEN [ret |-> "panic", cubits |-> cs]
             ELSE [ret |-> "Ok", cubits |-> RotateLoop(cs, Ranges(s, m), rot)]

----------------------------------------------------------------------------
(* The inputs. *)

\* the value of mv before the first call
NoMove == [move_type |-> "none", axis |-> "none", affected_range |-> <<"none">>]

\* layer selectors tried on a cube of s sides: every valid one, and the
\* first invalid one of each kind
Layers(s) == {<<"Single", l>> : l \in 0..s} \cup {<<"Multiple", c>> : c \in 0..(s + 1)}

\* every Move the public constructors build for those selectors
Moves(s) ==
    {FaceMove(f, l, t) : f \in Faces, l \in Layers(s), t \in MoveType}
    \cup {rotate_cube(a, t) : a \in Axis, t \in MoveType}

\* the moves that scramble: a clockwise quarter turn of each outer face
Generators == {FaceMove(f, <<"Single", 0>>, "Clockwise") : f \in Faces}

----------------------------------------------------------------------------
(* Construction, one iteration of the filter_map/fold per step. *)

ConsInit ==
    /\ phase = "constructing"
    /\ arg \in 0..MaxSides
    /\ idx = 0
    /\ sides = 0
    /\ cubits = <<>>
    /\ ret = "none"
    /\ mv = NoMove
    /\ prev = <<>>
    /\ nMoves = 0
    /\ todo = {}

\* a guard that reports the minimum instead of the rejected value
ConsReject_ReportsMin ==
    /\ phase = "constructing"
    /\ arg < MinSides
    /\ phase' = "failed"
    /\ ret' = <<"InvalidNumberSides", MinSides>>
    /\ UNCHANGED <<arg, idx, sides, cubits, mv, prev, nMoves, todo>>

\* with_number_sides: the guard that rejects sides < 2
ConsReject ==
    /\ phase = "constructing"
    /\ arg < MinSides
    /\ phase' = "failed"
    /\ ret' = <<"InvalidNumberSides", arg>>
    /\ UNCHANGED <<arg, idx, sides, cubits, mv, prev, nMoves, todo>>

\* with_number_sides: one index of 0..full through the filter_map and fold
ConsStep ==
    /\ phase = "constructing"
    /\ arg >= MinSides
    /\ idx < Pow(arg, 3)
    /\ sides' = arg
    /\ cubits' = IF OnShell(arg, idx)
                 THEN Append(cubits, StdFromPosition(IndexToCoords(arg, idx)))
                 ELSE cubits
    /\ idx' = idx + 1
    /\ UNCHANGED <<phase, arg, ret, mv, prev, nMoves, todo>>

\* with_number_sides: the iterator is exhausted, Ok(cube) is returned
ConsDone ==
    /\ phase = "constructing"
    /\ arg >= MinSides
    /\ idx = Pow(arg, 3)
    /\ phase' = "ready"
    /\ ret' = "Ok"
    /\ UNCHANGED <<arg, idx, sides, cubits, mv, prev, nMoves, todo>>

ConsNext == ConsReject \/ ConsStep \/ ConsDone

SpecCons == ConsInit /\ [][ConsNext]_vars

----------------------------------------------------------------------------
(* Rotation of a constructed cube. *)

Init ==
    /\ phase = "ready"
    /\ arg \in MinSides..MaxRotSides
    /\ idx = Pow(arg, 3)
    /\ sides = arg
    /\ cubits = WithNumberSides(arg)
    /\ ret = "Ok"
    /\ mv = NoMove
    /\ prev = cubits
    /\ nMoves = 0
    /\ todo = {}

\* one call of Cube::rotate with the move m
Call(m) ==
    LET r == CubeRotate(sides, cubits, m)
    IN  /\ cubits' = r.cubits
        /\ ret' = r.ret
        /\ mv' = m
        /\ prev' = cubits
        /\ nMoves' = nMoves + 1
        /\ UNCHANGED <<phase, arg, idx, sides, todo>>

\* the calls made so far were all scrambling calls
Scrambling == mv = NoMove \/ mv \in Generators

\* a scrambling call of Cube::rotate: a generator move
Scramble ==
    /\ phase = "ready"
    /\ Scrambling
    /\ nMoves < MaxScramble
    /\ \E m \in Generators : Call(m)

\* a call of Cube::rotate with any move the constructors build, valid or not,
\* on a scrambled cube
Rotate ==
    /\ phase = "ready"
    /\ Scrambling
    /\ nMoves <= MaxScramble
    /\ \E m \in Moves(sides) : Call(m)

Next == Scramble \/ Rotate

Spec == Init /\ [][Next]_vars

----------------------------------------------------------------------------
(* Cube::rotate on a fresh cube with its loop taken one cubit at a time.   *)
(* Nothing of the loop depends on the order of the visits but the cubits   *)
(* themselves, so on the smallest cube the visits are taken in any order;  *)
(* on larger cubes in the order of the iterator.                           *)

\* the smallest index the loop has yet to visit
FirstTodo == CHOOSE k \in todo : \A j \in todo : k <= j

\* the indices the next iteration may visit
NextCubits == IF sides = MinSides THEN todo ELSE {FirstTodo}

\* Cube::rotate up to the loop: validation, range resolution, matrix lookup
LoopStart ==
    /\ phase = "ready"
    /\ nMoves = 0
    /\ \E m \in Moves(sides) :
          /\ mv' = m
          /\ prev' = cubits
          /\ nMoves' = nMoves + 1
          /\ IF InvalidLayer(sides, m)
             THEN phase' = "ready" /\ ret' = "InvalidMoveLayer" /\ todo' = {}
             ELSE IF RotationMatrix(m) = Panic
             THEN phase' = "ready" /\ ret' = "panic" /\ todo' = {}
             ELSE phase' = "rotating" /\ ret' = "none" /\ todo' = 1..Len(cubits)
    /\ UNCHANGED <<arg, idx, sides, cubits>>

\* one iteration of the loop of Cube::rotate
LoopStep ==
    /\ phase = "rotating"
    /\ todo # {}
    /\ \E k \in NextCubits :
          /\ cubits' = [cubits EXCEPT
                            ![k] = LoopBody(@, Ranges(sides, mv), RotationMatrix(mv))]
          /\ todo' = todo \ {k}
    /\ UNCHANGED <<phase, arg, idx, sides, ret, mv, prev, nMoves>>

\* the loop of Cube::rotate is over: Ok(()) is returned
LoopDone ==
    /\ phase = "rotating"
    /\ todo = {}
    /\ phase' = "ready"
    /\ ret' = "Ok"
    /\ UNCHANGED <<arg, idx, sides, cubits, mv, prev, nMoves, todo>>

LoopNext == LoopStart \/ LoopStep \/ LoopDone

SpecLoop == Init /\ [][LoopNext]_vars

----------------------------------------------------------------------------
(* Notions the properties are stated in, independent of the code above. *)

\* sides^3 - (sides-2)^3
ShellCount(s) == s * s * s - (s - 2) * (s - 2) * (s - 2)

\* the extremal coordinate of the convention
ConvOffset(s) == IF s % 2 = 0 THEN s - 1 ELSE s \div 2

\* the per-axis coordinates of the convention
Lattice(s) ==
    IF s % 2 = 0
    THEN {v \in (-(s - 1))..(s - 1) : v % 2 = 1}
    ELSE (-(s \div 2))..(s \div 2)

\* a lattice point with at least one extremal coordinate
ShellPoint(s, p) ==
    /\ \A k \in 1..3 : p[k] \in Lattice(s)
    /\ \E k \in 1..3 : p[k] = ConvOffset(s) \/ p[k] = -ConvOffset(s)

\* the turn that undoes a turn
InvTurn(t) ==
    IF t = "Clockwise" THEN "CounterClockwise"
    ELSE IF t = "CounterClockwise" THEN "Clockwise" ELSE "Twice"

\* the face a directional axis names, and the face opposite a face
FaceOfAxis(a) ==
    CASE a = "Z" -> "top" [] a = "NegZ" -> "bottom"
      [] a = "Y" -> "right" [] a = "NegY" -> "left"
      [] a = "X" -> "front" [] a = "NegX" -> "back"

OppositeFace(f) ==
    CASE f = "top" -> "bottom" [] f = "bottom" -> "top"
      [] f = "right" -> "left" [] f = "left" -> "right"
      [] f = "front" -> "back" [] f = "back" -> "front"

\* the canonical axis of a face, and whether the face is a positive one
CanonAxis(f) ==
    CASE f \in {"front", "back"} -> "X"
      [] f \in {"right", "left"} -> "Y"
      [] f \in {"top", "bottom"} -> "Z"

PositiveFace(f) == f \in {"front", "right", "top"}

\* a call of Cube::rotate has been made
Called == phase = "ready" /\ mv # NoMove

\* the last call was a face move with a layer selector of the given kind
FaceCall(kind) == Called /\ mv.affected_range[1] = kind

\* the cubits a sequence of calls leaves
After(s, cs, m) == CubeRotate(s, cs, m).cubits

\* the cubit that was at position p before the last call, as it is now
NowOf(p) == {cubits[k] : k \in {j \in 1..Len(prev) : prev[j][1] = p}}

\* the cubit that was at position p before the last call, as it was then
ThenOf(p) == {prev[k] : k \in {j \in 1..Len(prev) : prev[j][1] = p}}

----------------------------------------------------------------------------
(* C1.  For every sides >= 2 Cube::with_number_sides(sides) succeeds and   *)
(* yields exactly sides^3 - (sides-2)^3 cubits, every one of them at a     *)
(* lattice point of the coordinate convention with at least one coordinate *)
(* equal to +offset or -offset.                                            *)
C1_ConstructionShell ==
    /\ arg >= 2 => phase # "failed"
    /\ (phase = "ready" /\ arg >= 2) =>
          /\ ret = "Ok"
          /\ sides = arg
          /\ Len(cubits) = ShellCount(arg)
          /\ \A k \in 1..Len(cubits) : ShellPoint(arg, cubits[k][1])

\* a 4x4x4 cube has been built: 56 cubits, an inner layer among them
C1_Witness ==
    /\ phase = "ready"
    /\ arg = 4
    /\ Len(cubits) = 56
    /\ \E k \in 1..Len(cubits) : cubits[k][1] = <<1, -1, 3>>

(* C2.  Round trip: after a successful rotate(m), rotate(m') with m' the   *)
(* move of the same axis and layer and the inverted turn succeeds and      *)
(* restores every cubit's position and orientation to its value before m.  *)
C2_RoundTrip ==
    (Called /\ ret = "Ok") =>
        LET back == CubeRotate(sides, cubits, [mv EXCEPT !.move_type = InvTurn(@)])
        IN  back.ret = "Ok" /\ back.cubits = prev

\* a left-face counter-clockwise turn of the second layer of a scrambled
\* cube has moved cubits
C2_Witness ==
    /\ Called
    /\ ret = "Ok"
    /\ nMoves > 1
    /\ mv = rotate_left(<<"Single", 1>>, "Clockwise")
    /\ cubits # prev

(* C3.  rotate returns Err(InvalidMoveLayer) exactly when the selector is  *)
(* Single(l) with l >= sides or Multiple(count) with count > sides, and    *)
(* Ok(()) otherwise; on a 3-sided cube Single(3) fails, Single(2) succeeds.*)
C3_Validation ==
    Called =>
        LET r == mv.affected_range
            bad == \/ r[1] = "Single" /\ r[2] >= sides
                   \/ r[1] = "Multiple" /\ r[2] > sides
        IN  /\ ret = (IF bad THEN "InvalidMoveLayer" ELSE "Ok")
            /\ (sides = 3 /\ r = <<"Single", 3>>) => ret = "InvalidMoveLayer"
            /\ (sides = 3 /\ r = <<"Single", 2>>) => ret = "Ok"

\* Single(3) has been refused by a 3-sided cube
C3_Witness ==
    /\ Called
    /\ sides = 3
    /\ mv.affected_range = <<"Single", 3>>
    /\ ret = "InvalidMoveLayer"

(* C4.  When rotate returns Err(InvalidMoveLayer) the cube is as it was    *)
(* before the call: sides, the cubit sequence, every position and every    *)
(* orientation.                                                            *)
C4_ErrLeavesCube ==
    (Called /\ ret = "InvalidMoveLayer") => (sides = arg /\ cubits = prev)

\* Multiple(sides + 1), whose range would cover the whole cube, has been
\* refused by a scrambled cube
C4_Witness ==
    /\ Called
    /\ ret = "InvalidMoveLayer"
    /\ nMoves > 1
    /\ mv.affected_range = <<"Multiple", sides + 1>>
    /\ cubits # WithNumberSides(sides)

(* C5.  Shell invariant: after any sequence of rotate calls, successful or *)
(* failing, there are still sides^3 - (sides-2)^3 cubits and every one is  *)
(* at a lattice point with at least one coordinate equal to +-offset.      *)
C5_ShellInvariant ==
    phase = "ready" =>
        /\ Len(cubits) = ShellCount(sides)
        /\ \A k \in 1..Len(cubits) : ShellPoint(sides, cubits[k][1])

\* a half turn of the top face has moved cubits of a scrambled cube
C5_Witness ==
    /\ Called
    /\ nMoves > 1
    /\ mv = rotate_top(<<"Single", 0>>, "Twice")
    /\ cubits # prev

\* each vector has one non-zero entry, +1 or -1, and the three are pairwise
\* orthogonal
SignedBasis(c) ==
    /\ \A k \in 2..4 :
          /\ \A j \in 1..3 : c[k][j] \in {-1, 0, 1}
          /\ Cardinality({j \in 1..3 : c[k][j] # 0}) = 1
    /\ \A k \in 2..4 : \A l \in 2..4 : k # l => Dot(c[k], c[l]) = 0

(* C6.  Orientation invariant: after any sequence of rotate calls every    *)
(* cubit's three orientation vectors are an orthonormal signed permutation *)
(* of the standard basis; on a fresh cube they are (1,0,0),(0,1,0),(0,0,1).*)
C6_Orientation ==
    phase = "ready" =>
        /\ \A k \in 1..Len(cubits) : SignedBasis(cubits[k])
        /\ nMoves = 0 =>
              \A k \in 1..Len(cubits) :
                  <<cubits[k][2], cubits[k][3], cubits[k][4]>>
                      = << <<1, 0, 0>>, <<0, 1, 0>>, <<0, 0, 1>> >>

\* a clockwise turn of the front face has left a cubit of a scrambled cube
\* in a non-standard orientation
C6_Witness ==
    /\ Called
    /\ nMoves > 1
    /\ mv = rotate_front(<<"Single", 0>>, "Clockwise")
    /\ \E k \in 1..Len(cubits) : cubits[k][2] # <<1, 0, 0>> /\ cubits[k] # prev[k]

(* C7.  Periodicity: a Single(0) Clockwise move of a face applied four     *)
(* times in a row restores the cube to what it was before the first, and a *)
(* Single(0) Twice move applied twice does too, for each of the six faces. *)
C7_Periodicity ==
    (FaceCall("Single") /\ mv.affected_range[2] = 0) =>
        /\ mv.move_type = "Clockwise" =>
              After(sides, After(sides, After(sides, cubits, mv), mv), mv) = prev
        /\ mv.move_type = "Twice" => After(sides, cubits, mv) = prev

\* the first of four clockwise turns of the back face has moved cubits of a
\* scrambled cube, and the second does not yet restore them
C7_Witness ==
    /\ FaceCall("Single")
    /\ nMoves > 1
    /\ mv = rotate_back(<<"Single", 0>>, "Clockwise")
    /\ cubits # prev
    /\ After(sides, cubits, mv) # prev

(* C8.  Directional equivalence: a face move with Single(l), l < sides,    *)
(* and a quarter turn leaves the same cube as the move of the opposite     *)
(* face with Single(sides-1-l) and the other quarter turn, for the         *)
(* bottom/top, back/front and left/right pairs.                            *)
C8_Directional ==
    (FaceCall("Single") /\ mv.affected_range[2] < sides
        /\ mv.move_type \in {"Clockwise", "CounterClockwise"}) =>
        LET l == mv.affected_range[2]
            other == FaceMove(OppositeFace(FaceOfAxis(mv.axis)),
                              <<"Single", sides - 1 - l>>, InvTurn(mv.move_type))
            r == CubeRotate(sides, prev, other)
        IN  r.ret = ret /\ r.cubits = cubits

\* rotate_bottom(Single(1), Clockwise) has turned the middle layer of a
\* 3-sided cube
C8_Witness ==
    /\ FaceCall("Single")
    /\ sides = 3
    /\ mv = rotate_bottom(<<"Single", 1>>, "Clockwise")
    /\ cubits # prev

\* the first call on a fresh 2x2x2 cube was rotate_top(Single(0), Clockwise)
C9_Case ==
    /\ Called
    /\ sides = 2
    /\ nMoves = 1
    /\ mv = rotate_top(<<"Single", 0>>, "Clockwise")

(* C9 as stated.  On a fresh 2x2x2 cube rotate_top(Single(0), Clockwise)   *)
(* moves the cubit at (1,1,1) to (1,-1,1) and leaves the cubits at         *)
(* (1,1,-1) and at (-1,1,1) untouched.                                     *)
C9_AsStated ==
    C9_Case =>
        /\ \A c \in NowOf(<<1, 1, 1>>) : c[1] = <<1, -1, 1>>
        /\ NowOf(<<1, 1, -1>>) = ThenOf(<<1, 1, -1>>)
        /\ NowOf(<<-1, 1, 1>>) = ThenOf(<<-1, 1, 1>>)

(* C9 amended.  On a fresh 2x2x2 cube rotate_top(Single(0), Clockwise)     *)
(* moves the cubit at (1,1,1) to (1,-1,1), moves the cubit at (-1,1,1),    *)
(* which lies in the turned layer, to (1,1,1), and leaves the cubit at     *)
(* (1,1,-1) and every other cubit with z = -1 untouched.                   *)
C9_TopTurn ==
    C9_Case =>
        /\ \A c \in NowOf(<<1, 1, 1>>) : c[1] = <<1, -1, 1>>
        /\ \A c \in NowOf(<<-1, 1, 1>>) : c[1] = <<1, 1, 1>>
        /\ NowOf(<<1, 1, -1>>) = ThenOf(<<1, 1, -1>>)
        /\ \A k \in 1..Len(prev) : prev[k][1][3] = -1 => cubits[k] = prev[k]

\* that call has been made and the cube had a cubit at each of the three
\* positions
C9_Witness ==
    /\ C9_Case
    /\ ret = "Ok"
    /\ \A p \in {<<1, 1, 1>>, <<1, 1, -1>>, <<-1, 1, 1>>} : Cardinality(ThenOf(p)) = 1

(* C10.  Matrix selection: rotation_matrix() of a face move is the table   *)
(* matrix of the face's canonical axis, with the turn unchanged for front, *)
(* right and top and inverted for back, left and bottom; of rotate_cube    *)
(* it is the matrix of (axis, turn); the layer selector has no influence.  *)
C10_MatrixSelection ==
    Called =>
        /\ mv.affected_range # WholeCube =>
              LET f == FaceOfAxis(mv.axis)
              IN  RotationMatrix(mv) =
                      MatrixOf(CanonAxis(f),
                               IF PositiveFace(f) THEN mv.move_type
                               ELSE InvTurn(mv.move_type))
        /\ mv.affected_range = WholeCube =>
              RotationMatrix(mv) = MatrixOf(mv.axis, mv.move_type)
        /\ mv.affected_range # WholeCube =>
              \A l \in Layers(sides) :
                  RotationMatrix([mv EXCEPT !.affected_range = l]) = RotationMatrix(mv)

\* rotate_left(.., Clockwise) has been applied with the Y counter-clockwise
\* matrix
C10_Witness ==
    /\ Called
    /\ ret = "Ok"
    /\ mv.axis = "NegY"
    /\ mv.move_type = "Clockwise"
    /\ RotationMatrix(mv) = ROT_MAT_Y_CCW
    /\ cubits # prev

(* C11.  For every sides < 2 Cube::with_number_sides(sides) fails with     *)
(* InvalidNumberSides(sides), carrying the rejected value, and produces no *)
(* cube: nothing after the guard runs.                                     *)
C11_RejectsSmall ==
    /\ phase = "failed" => (arg < 2 /\ ret = <<"InvalidNumberSides", arg>>)
    /\ arg < 2 => (phase # "ready" /\ idx = 0 /\ sides = 0 /\ cubits = <<>>)

\* with_number_sides(1) has been refused
C11_Witness ==
    /\ phase = "failed"
    /\ arg = 1
    /\ ret = <<"InvalidNumberSides", 1>>

\* the shell points of a cube of s sides
ShellSet(s) == {p \in Lattice(s) \X Lattice(s) \X Lattice(s) : ShellPoint(s, p)}

\* p comes before q with z outermost, then x, then y innermost
ZXYBefore(p, q) ==
    \/ p[3] < q[3]
    \/ p[3] = q[3] /\ p[1] < q[1]
    \/ p[3] = q[3] /\ p[1] = q[1] /\ p[2] < q[2]

\* the positions of a cubit sequence
Positions(cs) == {cs[k][1] : k \in 1..Len(cs)}

(* C12.  Construction contents and order: the constructed sequence is the  *)
(* shell points with z ascending outermost, then x, then y innermost, each *)
(* once and in standard orientation; for sides=2 the 8 points              *)
(* (+-1,+-1,+-1), for sides=3 the 26 points of {-1,0,1}^3 but (0,0,0).     *)
C12_ContentsAndOrder ==
    (phase = "ready" /\ arg >= 2) =>
        /\ Positions(cubits) = ShellSet(arg)
        /\ \A k \in 1..(Len(cubits) - 1) : ZXYBefore(cubits[k][1], cubits[k + 1][1])
        /\ \A k \in 1..Len(cubits) : cubits[k] = StdFromPosition(cubits[k][1])
        /\ arg = 2 => Positions(cubits) = {-1, 1} \X {-1, 1} \X {-1, 1}
        /\ arg = 3 => Positions(cubits)
                        = ({-1, 0, 1} \X {-1, 0, 1} \X {-1, 0, 1}) \ {<<0, 0, 0>>}

\* a 3x3x3 cube has been built, (-1,-1,-1) first and (-1,0,-1) second
C12_Witness ==
    /\ phase = "ready"
    /\ arg = 3
    /\ Len(cubits) = 26
    /\ cubits[1][1] = <<-1, -1, -1>>
    /\ cubits[2][1] = <<-1, 0, -1>>

\* the step between neighbouring layers of the convention
ConvStep(s) == IF s % 2 = 0 THEN 2 ELSE 1

\* the index of a directional axis' canonical axis in a position
AxisIndex(a) ==
    CASE a \in {"X", "NegX"} -> 1
      [] a \in {"Y", "NegY"} -> 2
      [] a \in {"Z", "NegZ"} -> 3

\* the coordinate of the layer at depth d from the face a directional axis names
LayerCoord(s, a, d) ==
    IF a \in {"X", "Y", "Z"}
    THEN ConvOffset(s) - d * ConvStep(s)
    ELSE -ConvOffset(s) + d * ConvStep(s)

\* cs with the matrix of m applied to exactly the cubits that satisfy Sel
Simultaneously(cs, m, Sel(_)) ==
    [k \in 1..Len(cs) |->
        IF Sel(cs[k]) THEN [j \in 1..4 |-> MatVec(RotationMatrix(m), cs[k][j])]
        ELSE cs[k]]

(* C13.  Single-layer selection and frame: a successful rotate with        *)
(* Single(l) on a face multiplies by the move's matrix exactly the cubits  *)
(* whose coordinate on the face's canonical axis is +offset - l*step       *)
(* (positive face) or -offset + l*step (negative face) at the time of the  *)
(* call; every other cubit keeps its position and orientation.             *)
C13_SingleLayer ==
    (FaceCall("Single") /\ ret = "Ok") =>
        LET InLayer(c) ==
                c[1][AxisIndex(mv.axis)] = LayerCoord(sides, mv.axis, mv.affected_range[2])
        IN  cubits = Simultaneously(prev, mv, InLayer)

\* a turn of the middle layer from the right face of a scrambled 3-sided
\* cube has moved some cubits and left others
C13_Witness ==
    /\ FaceCall("Single")
    /\ ret = "Ok"
    /\ sides = 3
    /\ nMoves > 1
    /\ mv = rotate_right(<<"Single", 1>>, "CounterClockwise")
    /\ \E k \in 1..Len(cubits) : cubits[k] # prev[k]
    /\ \E k \in 1..Len(cubits) : cubits[k] = prev[k]

\* cs after Single(d), Single(d + 1), ..., Single(c - 1) of a face and turn
RECURSIVE SinglesFrom(_, _, _, _, _, _)
SinglesFrom(s, cs, a, t, d, c) ==
    IF d >= c THEN cs
    ELSE SinglesFrom(s, After(s, cs, MkMove(t, a, <<"Single", d>>)), a, t, d + 1, c)

(* C14.  Multiple-layer selection: a successful rotate with                *)
(* Multiple(count), 1 <= count <= sides, on a face rotates exactly the     *)
(* cubits in the layers at depth 0 .. count-1 from that face; its result   *)
(* is that of Single(0), ..., Single(count-1) of the same face and turn.   *)
C14_MultipleLayers ==
    (FaceCall("Multiple") /\ mv.affected_range[2] >= 1 /\ mv.affected_range[2] <= sides) =>
        LET c == mv.affected_range[2]
            InLayers(q) ==
                \E d \in 0..(c - 1) :
                    q[1][AxisIndex(mv.axis)] = LayerCoord(sides, mv.axis, d)
        IN  /\ ret = "Ok"
            /\ cubits = Simultaneously(prev, mv, InLayers)
            /\ cubits = SinglesFrom(sides, prev, mv.axis, mv.move_type, 0, c)

\* Multiple(2) from the back face of a scrambled 3-sided cube has moved
\* some cubits and left others
C14_Witness ==
    /\ FaceCall("Multiple")
    /\ ret = "Ok"
    /\ sides = 3
    /\ nMoves > 1
    /\ mv = rotate_back(<<"Multiple", 2>>, "Clockwise")
    /\ \E k \in 1..Len(cubits) : cubits[k] # prev[k]
    /\ \E k \in 1..Len(cubits) : cubits[k] = prev[k]

(* C16.  The internal AxisConvert error is unreachable: for every Move the *)
(* public constructors build, normalize_axis_move_type attempts the        *)
(* fallible conversion on X, Y or Z only, so rotation_matrix() and         *)
(* rotate() never panic and never return AxisConvert.                      *)
C16_NoAxisConvert ==
    Called =>
        /\ ret \in {"Ok", "InvalidMoveLayer"}
        /\ NormalizeAxisMoveType(mv) # Panic
        /\ RotationMatrix(mv) # Panic
        /\ mv.axis \notin {"NegX", "NegY", "NegZ"} => AxisTryFrom(mv.axis)[1] = "Ok"

\* a bottom-face move, whose axis the conversion would refuse, has been
\* applied
C16_Witness ==
    /\ Called
    /\ ret = "Ok"
    /\ mv.axis = "NegZ"
    /\ AxisTryFrom(mv.axis) = <<"Err", "AxisConvert">>
    /\ cubits # prev

(* C17.  After any sequence of rotate calls the cubits occupy pairwise     *)
(* distinct positions, and the set of occupied positions is the set        *)
(* occupied at construction.                                               *)
C17_PositionsPermuted ==
    phase = "ready" =>
        /\ \A k \in 1..Len(cubits) : \A l \in 1..Len(cubits) :
              cubits[k][1] = cubits[l][1] => k = l
        /\ Positions(cubits) = Positions(WithNumberSides(sides))

\* a clockwise turn of two layers from the right face of a scrambled cube
\* has moved cubits to other positions
C17_Witness ==
    /\ Called
    /\ ret = "Ok"
    /\ nMoves > 1
    /\ mv = rotate_right(<<"Multiple", 2>>, "Clockwise")
    /\ \E k \in 1..Len(cubits) : cubits[k][1] # prev[k][1]

(* C18.  For every face or whole-cube axis and every valid layer selector, *)
(* the Clockwise move applied twice leaves the same cube as the Twice move *)
(* applied once, and so does the CounterClockwise move applied twice.      *)
C18_TwoQuartersAreAHalf ==
    (Called /\ ret = "Ok" /\ mv.move_type \in {"Clockwise", "CounterClockwise"}) =>
        LET twice == After(sides, prev, [mv EXCEPT !.move_type = "Twice"])
        IN  /\ After(sides, cubits, mv) = twice
            /\ After(sides, After(sides, prev, [mv EXCEPT !.move_type = InvTurn(@)]),
                     [mv EXCEPT !.move_type = InvTurn(@)]) = twice

\* the first of two counter-clockwise turns of the front face has moved
\* cubits of a scrambled cube
C18_Witness ==
    /\ Called
    /\ ret = "Ok"
    /\ nMoves > 1
    /\ mv = rotate_front(<<"Single", 0>>, "CounterClockwise")
    /\ cubits # prev
    /\ After(sides, cubits, mv) # cubits

(* C19.  A face move with Multiple(sides) selects every cubit:             *)
(* rotate_top/right/front(Multiple(sides), t) leaves the same cube as      *)
(* rotate_cube(Z/Y/X, t), and rotate_bottom/left/back(Multiple(sides), t)  *)
(* the same as rotate_cube(Z/Y/X, opposite(t)), for even and odd sides.    *)
C19_AllLayersIsWholeCube ==
    (FaceCall("Multiple") /\ mv.affected_range[2] = sides) =>
        LET f == FaceOfAxis(mv.axis)
            whole == rotate_cube(CanonAxis(f),
                                 IF PositiveFace(f) THEN mv.move_type
                                 ELSE InvTurn(mv.move_type))
            r == CubeRotate(sides, prev, whole)
        IN  /\ ret = "Ok"
            /\ r.ret = "Ok"
            /\ cubits = r.cubits
            /\ \A k \in 1..Len(cubits) : cubits[k] # prev[k]

\* rotate_left(Multiple(2), Clockwise) has turned a whole 2-sided cube
C19_Witness ==
    /\ FaceCall("Multiple")
    /\ sides = 2
    /\ mv = rotate_left(<<"Multiple", 2>>, "Clockwise")
    /\ ret = "Ok"
    /\ cubits # prev

(* C20.  A move with Multiple(0) passes validation, returns Ok(()) and     *)
(* changes no cubit: the range resolved on the targeted axis is empty, its *)
(* lower bound above its upper bound, for every face and every sides.      *)
C20_MultipleZero ==
    (FaceCall("Multiple") /\ mv.affected_range[2] = 0) =>
        LET r == Ranges(sides, mv)[AxisIndex(mv.axis)]
        IN  /\ ret = "Ok"
            /\ cubits = prev
            /\ r[1] > r[2]

\* rotate_bottom(Multiple(0), ..) has been accepted by a scrambled cube
C20_Witness ==
    /\ FaceCall("Multiple")
    /\ nMoves > 1
    /\ mv.axis = "NegZ"
    /\ mv.affected_range = <<"Multiple", 0>>
    /\ ret = "Ok"
    /\ cubits # WithNumberSides(sides)

\* the cubit was inside the ranges the last call resolved
InResolved(c) == InRanges(Ranges(sides, mv), c[1])

(* C15.  Atomicity and order independence of rotate: with the per-cubit    *)
(* loop taken as single steps in any order, the final cube is the one that *)
(* applying the move's matrix simultaneously to exactly the cubits inside  *)
(* the resolved ranges before the call gives; no cubit is rotated twice or *)
(* skipped because another was rotated earlier in the same call.           *)
C15_LoopIsAtomic ==
    /\ phase = "rotating" =>
          \A k \in 1..Len(cubits) :
              cubits[k] = IF k \notin todo /\ InResolved(prev[k])
                          THEN CubitRotate(prev[k], RotationMatrix(mv))
                          ELSE prev[k]
    /\ (Called /\ ret = "Ok") =>
          /\ todo = {}
          /\ cubits = Simultaneously(prev, mv, InResolved)
          /\ cubits = CubeRotate(sides, prev, mv).cubits
    /\ (Called /\ ret # "Ok") => cubits = prev

\* in a top-face turn of a 2-sided cube the loop has visited cubits 4, 6, 7
\* and 8 before cubits 1, 2, 3 and 5: the last cubit is rotated, the fourth
\* is passed over, the fifth still awaits its turn
C15_Witness ==
    /\ phase = "rotating"
    /\ sides = 2
    /\ mv = rotate_top(<<"Single", 0>>, "Clockwise")
    /\ todo = {1, 2, 3, 5}
    /\ cubits[8] # prev[8]
    /\ cubits[4] = prev[4]
    /\ InResolved(prev[5])

\* the selector of a face move is within the cube
ValidSelector(s, r) ==
    \/ r[1] = "Single" /\ r[2] < s
    \/ r[1] = "Multiple" /\ r[2] <= s

\* the coordinates, on its canonical axis, of the layers a face move targets
TargetLayers(s, m) ==
    IF m.affected_range[1] = "Single"
    THEN {LayerCoord(s, m.axis, m.affected_range[2])}
    ELSE {LayerCoord(s, m.axis, d) : d \in 0..(m.affected_range[2] - 1)}

\* a rank that orders the face moves of a cube of s sides: that the moves
\* a and b commute from a state is one statement for the pair, so it is
\* checked with the move of lower rank as the call made
MoveRank(s, m) ==
    LET face == CASE m.axis = "Z" -> 0 [] m.axis = "NegZ" -> 1
                  [] m.axis = "Y" -> 2 [] m.axis = "NegY" -> 3
                  [] m.axis = "X" -> 4 [] m.axis = "NegX" -> 5
        kind == IF m.affected_range[1] = "Single" THEN 0 ELSE 1
        turn == CASE m.move_type = "Clockwise" -> 0
                  [] m.move_type = "CounterClockwise" -> 1
                  [] m.move_type = "Twice" -> 2
    IN  ((face * 2 + kind) * (s + 2) + m.affected_range[2]) * 3 + turn

\* the valid face moves about the canonical axis of m whose layers are
\* disjoint from those of m, and whose rank is not below that of m
DisjointMoves(s, m) ==
    {n \in {FaceMove(f, l, t) : f \in Faces, l \in Layers(s), t \in MoveType} :
        /\ ValidSelector(s, n.affected_range)
        /\ AxisIndex(n.axis) = AxisIndex(m.axis)
        /\ TargetLayers(s, n) \cap TargetLayers(s, m) = {}
        /\ MoveRank(s, m) <= MoveRank(s, n)}

====
